---------------------------- MODULE Spec2Model ----------------------------
(***************************************************************************)
(* Model of zl2wbm.py (ZimLinksToWaybackMachine): the crawl of a Zim       *)
(* notebook, the extraction of the links of a page, their archival in the  *)
(* Wayback Machine and the rewrite of the page.                            *)
(*                                                                         *)
(* A Python str is a sequence of one-character strings, so that the        *)
(* regular expressions, urlparse and the str methods of the source are     *)
(* computed character by character.                                        *)
(***************************************************************************)
EXTENDS Integers, Sequences, FiniteSets, TLC

VARIABLES
    pc,             \* position of the program
    caller,         \* who called archive_links: "crawl" or "direct"
    docs,           \* the *.txt files rglob yields, in the order it yields them
    doc_i,          \* index of the file the crawl loop is at
    log_level,      \* level of the logger "zl2wbm" (main, line 242)
    file_contents,  \* text of the page being processed (text in edit_text)
    output,         \* what print() wrote, one element per call
    urls,           \* argument of archive_links (urls_to_archive)
    idx,            \* index of the url the loop of archive_links is at
    archived_urls,  \* list of ArchivedUrl built by archive_links
    url,            \* save_link_in_wayback_machine: url after line 70
    avail,          \* save_link_in_wayback_machine: answer to the availability query
    result,         \* outcome of the last call of save_link_in_wayback_machine
    service_log,    \* requests received by the archiving service, in order
    raised,         \* exception that left the entry point, or "none"
    k,              \* edit_text: index of the pair the loop is at
    before,         \* edit_text: text before the last iteration of the loop
    processed       \* documents that went through extract, archive and rewrite

vars == <<pc, caller, docs, doc_i, log_level, file_contents, output, urls, idx,
          archived_urls, url, avail, result, service_log, raised, k, before,
          processed>>

-----------------------------------------------------------------------------
(* Bounds of the model *)

MaxUrls == 2
MaxAgeDays == 15

-----------------------------------------------------------------------------
(* Python values *)

\* None; no str of the model is equal to it
None == <<"None">>

\* truth value of a str or None (if archived_url / if parsed_url.hostname)
Truthy(x) == x /= None /\ x /= <<>>

\* s in t, for two str
Contains(t, s) ==
    \E i \in 1..(Len(t) - Len(s) + 1) : SubSeq(t, i, i + Len(s) - 1) = s

\* t.startswith(s, i - 1), positions counted from 1
StartsAt(t, s, i) ==
    /\ i >= 1
    /\ i + Len(s) - 1 <= Len(t)
    /\ SubSeq(t, i, i + Len(s) - 1) = s

\* indices of the elements of t that are in the set cs
Indices(t, cs) == {i \in 1..Len(t) : t[i] \in cs}

\* the lists of at most n elements of S
Lists(S, n) == UNION {[1..m -> S] : m \in 0..n}

Min(S) == CHOOSE x \in S : \A y \in S : x <= y
Max(S) == CHOOSE x \in S : \A y \in S : x >= y

-----------------------------------------------------------------------------
(* Constants of the program *)

BASE_WEB_ARCHIVE_URL == <<"h","t","t","p","s",":","/","/","w","e","b",".","a","r","c","h","i","v","e",".","o","r","g">>

IGNORED_HOSTS ==
    { <<"w","e","b",".","a","r","c","h","i","v","e",".","o","r","g">>, <<"a","r","c","h","i","v","e",".","i","s">>, <<"w","e","b","-","b","e","t","a",".","a","r","c","h","i","v","e",".","o","r","g">>, <<"l","o","c","a","l","h","o","s","t">> }

\* the age under which a snapshot is reused, in days (line 89)
RECENT_DAYS == 14

\* timedelta.days counts whole days of 24 hours
HOURS_PER_DAY == 24

-----------------------------------------------------------------------------
(* urlparse(url).hostname, for the urls of the model: lower-case, without *)
(* userinfo, port or brackets.                                             *)

Letters ==
    {"a","b","c","d","e","f","g","h","i","j","k","l","m","n","o","p","q","r",
     "s","t","u","v","w","x","y","z"}

Digits == {"0","1","2","3","4","5","6","7","8","9"}

SchemeChars == Letters \cup Digits \cup {"+", "-", "."}

\* what is before the first ":" is the scheme when it starts with a letter and
\* holds scheme characters only; the netloc is there only when the rest starts
\* with "//", and runs to the first of / ? #
hostname(u) ==
    LET colons == Indices(u, {":"})
        c      == Min(colons)
        scheme == IF colons /= {} /\ c > 1 /\ u[1] \in Letters
                     /\ \A i \in 1..(c - 1) : u[i] \in SchemeChars
                  THEN c ELSE 0
        rest   == SubSeq(u, scheme + 1, Len(u))
        ends   == {i \in Indices(rest, {"/", "?", "#"}) : i > 2}
        netloc == IF StartsAt(rest, <<"/","/">>, 1)
                  THEN SubSeq(rest, 3, IF ends = {} THEN Len(rest) ELSE Min(ends) - 1)
                  ELSE <<>>
    IN  IF netloc = <<>> THEN None ELSE netloc

-----------------------------------------------------------------------------
(* The archiving service, as save_link_in_wayback_machine sees it *)

NoAnswer == [kind |-> "none", age |-> 0, url |-> <<>>]

\* the url of the closest snapshot of u that the service reports
SnapshotUrl(u) == <<"h","t","t","p",":","/","/","w","e","b",".","a","r","c","h","i","v","e",".","o","r","g","/","w","e","b","/","2","0","1","7","/">> \o u

\* content-location of a new snapshot of u (comment of line 105)
ContentLocation(u) == <<"/","w","e","b","/","2","0","1","8","/">> \o u

\* ages of a closest snapshot, in hours (now - timestamp)
SnapshotAges ==
    {d * HOURS_PER_DAY + h : d \in (0 - 1)..MaxAgeDays, h \in {0, HOURS_PER_DAY - 1}}

\* what requests.get and json.loads can give for the availability query of u:
\*   transport_error  requests.get raises requests.ConnectionError
\*   not_json         json.loads raises json.JSONDecodeError
\*   missing_field    the body has no "archived_snapshots": KeyError
\*   empty            "archived_snapshots" is {}
\*   closest          "archived_snapshots" holds a closest snapshot
AvailabilityAnswers(u) ==
    {[kind |-> kd, age |-> 0, url |-> <<>>] :
        kd \in {"transport_error", "not_json", "missing_field", "empty"}}
    \cup {[kind |-> "closest", age |-> a, url |-> SnapshotUrl(u)] : a \in SnapshotAges}

\* what the save request of u can give:
\*   transport_error  requests.get raises requests.ConnectionError
\*   runtime_error    header X-Archive-Wayback-Runtime-Error
\*   liveweb_error    header x-archive-wayback-liveweb-error
\*   located          header content-location
\*   plain            none of these headers
SaveAnswers == {"transport_error", "runtime_error", "liveweb_error", "located", "plain"}

-----------------------------------------------------------------------------
(* save_link_in_wayback_machine *)

\* line 70
WithScheme(u) == IF Contains(u, <<":","/","/">>) THEN u ELSE <<"h","t","t","p",":","/","/">> \o u

\* delta.days of line 86: whole days, rounded down
DeltaDays(age) == age \div HOURS_PER_DAY

\* line 89 with a threshold of 13 days
IsRecentEarly(age) == DeltaDays(age) < RECENT_DAYS - 1
\* line 89 with <= in place of <
IsRecentLate(age) == DeltaDays(age) <= RECENT_DAYS
\* line 89
IsRecent(age) == DeltaDays(age) < RECENT_DAYS

\* lines 71-94: archived_url once the answer to the availability query is read
ArchivedUrlOfAnswer(a) ==
    IF a.kind = "closest" /\ IsRecent(a.age) THEN a.url ELSE None

\* the exception an answer to the availability query raises (lines 76-84)
AvailabilityException(a) ==
    CASE a.kind = "transport_error" -> "ConnectionError"
      [] a.kind = "not_json"        -> "JSONDecodeError"
      [] a.kind = "missing_field"   -> "KeyError"
      [] OTHER                      -> "none"

\* the exception an answer to the save request raises (lines 97-103)
SaveException(s) ==
    CASE s = "transport_error" -> "ConnectionError"
      [] s = "runtime_error"   -> "SaveLinkToWaybackMachineException"
      [] s = "liveweb_error"   -> "SaveLinkToWaybackMachineException"
      [] OTHER                 -> "none"

\* line 106
SavedUrl(s, u) ==
    BASE_WEB_ARCHIVE_URL \o (IF s = "located" THEN ContentLocation(u) ELSE u)

-----------------------------------------------------------------------------
(* archive_links *)

\* the exceptions of the except clause of line 138
CaughtExceptions == {"HTTPError", "JSONDecodeError"}

\* line 134; a ParseResult is a non-empty tuple, hence true
ShouldArchive(u) == hostname(u) \notin IGNORED_HOSTS

ArchivedUrl(original, archived) ==
    [original_url |-> original, archived_url |-> archived]

Request(req, u) == [call |-> idx, req |-> req, url |-> u]

\* where archive_links returns to
AfterArchiveLinks == IF caller = "crawl" THEN "edit_text" ELSE "returned"

ArchiveVars == <<urls, idx, archived_urls, url, avail, result, service_log>>
CrawlVars == <<docs, doc_i, log_level, output, processed>>
EditVars == <<k, before>>

\* lines 131-137 and 70-76, one url of the loop: when its host is ignored the
\* loop goes to the next url; otherwise save_link_in_wayback_machine is called
\* and sends the availability query
ArchiveLinksUrl ==
    /\ pc = "archive_links"
    /\ idx <= Len(urls)
    /\ IF ShouldArchive(urls[idx])
       THEN /\ url' = WithScheme(urls[idx])
            /\ avail' = NoAnswer
            /\ result' = None
            /\ service_log' = Append(service_log, Request("available", url'))
            /\ pc' = "available"
            /\ idx' = idx
       ELSE /\ idx' = idx + 1
            /\ UNCHANGED <<pc, url, avail, result, service_log>>
    /\ UNCHANGED <<caller, file_contents, raised, urls, archived_urls, CrawlVars,
                   EditVars>>

\* an exception leaves save_link_in_wayback_machine: lines 138-140 skip the
\* url when the except clause names it, otherwise it leaves archive_links
Raise(e) ==
    /\ result' = <<"raised", e>>
    /\ IF e \in CaughtExceptions
       THEN /\ idx' = idx + 1
            /\ pc' = "archive_links"
            /\ raised' = raised
       ELSE /\ idx' = idx
            /\ pc' = "raised"
            /\ raised' = e
    /\ UNCHANGED <<caller, file_contents, urls, archived_urls, url, CrawlVars,
                   EditVars>>

\* line 108-110 and 137: the call returns, the pair is appended
Return(a) ==
    /\ result' = a
    /\ archived_urls' = Append(archived_urls, ArchivedUrl(urls[idx], a))
    /\ idx' = idx + 1
    /\ pc' = "archive_links"
    /\ UNCHANGED <<caller, file_contents, raised, urls, url, CrawlVars, EditVars>>

\* lines 76-78: the availability query fails or its body is not the expected one
AvailableFails ==
    /\ pc = "available"
    /\ \E a \in AvailabilityAnswers(url) :
        /\ AvailabilityException(a) /= "none"
        /\ avail' = a
        /\ Raise(AvailabilityException(a))
    /\ UNCHANGED service_log

\* lines 80-92, 96, 108-110: a recent snapshot exists and is the result
AvailableRecent ==
    /\ pc = "available"
    /\ \E a \in AvailabilityAnswers(url) :
        /\ AvailabilityException(a) = "none"
        /\ Truthy(ArchivedUrlOfAnswer(a))
        /\ avail' = a
        /\ Return(ArchivedUrlOfAnswer(a))
    /\ UNCHANGED service_log

\* lines 80-97: no snapshot, or an old one: the save request is sent
AvailableSave ==
    /\ pc = "available"
    /\ \E a \in AvailabilityAnswers(url) :
        /\ AvailabilityException(a) = "none"
        /\ ~Truthy(ArchivedUrlOfAnswer(a))
        /\ avail' = a
    /\ service_log' = Append(service_log, Request("save", url))
    /\ pc' = "save"
    /\ UNCHANGED <<caller, file_contents, raised, urls, idx, archived_urls, url,
                   result, CrawlVars, EditVars>>

\* lines 97-103: the save request fails, or its answer carries an error header
SaveFails ==
    /\ pc = "save"
    /\ \E s \in SaveAnswers :
        /\ SaveException(s) /= "none"
        /\ Raise(SaveException(s))
    /\ UNCHANGED <<avail, service_log>>

\* lines 106-110: the new snapshot is the result
SaveDone ==
    /\ pc = "save"
    /\ \E s \in SaveAnswers :
        /\ SaveException(s) = "none"
        /\ Return(SavedUrl(s, url))
    /\ UNCHANGED <<avail, service_log>>

\* line 142
ArchiveLinksReturn ==
    /\ pc = "archive_links"
    /\ idx > Len(urls)
    /\ pc' = AfterArchiveLinks
    /\ k' = 1
    /\ before' = file_contents
    /\ UNCHANGED <<caller, file_contents, raised, ArchiveVars, CrawlVars>>

ArchiveNext ==
    \/ ArchiveLinksUrl
    \/ AvailableFails
    \/ AvailableRecent
    \/ AvailableSave
    \/ SaveFails
    \/ SaveDone
    \/ ArchiveLinksReturn

-----------------------------------------------------------------------------
(* Text: whitespace, tokens, str methods *)

\* the characters \s matches and str.split() splits at, among those of the model
Whitespace == {" ", "\t", "\n"}

\* s.lstrip(chars) and s.rstrip(chars): chars is a set of characters
RECURSIVE lstrip(_, _)
lstrip(s, cs) ==
    IF s /= <<>> /\ Head(s) \in cs THEN lstrip(Tail(s), cs) ELSE s

RECURSIVE rstrip(_, _)
rstrip(s, cs) ==
    IF s /= <<>> /\ s[Len(s)] \in cs THEN rstrip(SubSeq(s, 1, Len(s) - 1), cs) ELSE s

\* s.split(c, 1)[0]
SplitFirst(s, c) ==
    LET at == Indices(s, {c})
    IN  IF at = {} THEN s ELSE SubSeq(s, 1, Min(at) - 1)

\* the maximal runs of characters of t that are not whitespace, in order
RECURSIVE Tokens(_)
Tokens(t) ==
    LET ws == Indices(t, Whitespace)
    IN  IF t = <<>> THEN <<>>
        ELSE IF ws = {} THEN <<t>>
        ELSE (IF Min(ws) = 1 THEN <<>> ELSE <<SubSeq(t, 1, Min(ws) - 1)>>)
             \o Tokens(SubSeq(t, Min(ws) + 1, Len(t)))

\* the elements of s without repetition, in the order of their first occurrence
RECURSIVE Unique(_)
Unique(s) ==
    IF s = <<>> THEN <<>>
    ELSE LET r == Unique(SubSeq(s, 1, Len(s) - 1))
         IN  IF \E i \in 1..Len(r) : r[i] = s[Len(s)] THEN r ELSE Append(r, s[Len(s)])

\* the elements of s whose index is in S, in order
Select(s, S) ==
    [n \in 1..Cardinality(S) |->
        s[CHOOSE i \in S : Cardinality({j \in S : j < i}) = n - 1]]

\* number of elements of s equal to x
Count(s, x) == Cardinality({i \in 1..Len(s) : s[i] = x})

\* the text with every occurrence of old replaced by new, from left to right
\* (re.sub of an escaped pattern; new holds no backslash)
RECURSIVE ReplaceAll(_, _, _)
ReplaceAll(t, old, new) ==
    LET occ == {i \in 1..Len(t) : StartsAt(t, old, i)}
    IN  IF occ = {} THEN t
        ELSE SubSeq(t, 1, Min(occ) - 1) \o new
             \o ReplaceAll(SubSeq(t, Min(occ) + Len(old), Len(t)), old, new)

-----------------------------------------------------------------------------
(* url_extractor.find_urls(text, only_unique=True): URLExtract looks for a   *)
(* top-level domain and returns the run of characters around it up to the   *)
(* whitespace on either side, decoration included (comment of line 149).    *)

TopLevelDomains == { <<".","c","o","m">>, <<".","o","r","g">>, <<".","i","s">> }

find_urls(text) ==
    LET all == Tokens(text)
        hit == {i \in 1..Len(all) : \E d \in TopLevelDomains : Contains(all[i], d)}
    IN  Unique(Select(all, hit))

-----------------------------------------------------------------------------
(* get_urls_to_archive_from_text *)

\* line 151
StripDecoration(token) == SplitFirst(rstrip(lstrip(token, {"["}), {"]"}), "|")

\* i is the start of a run of t, ending before j, that holds no newline: ".*"
OneLine(t, i, j) == \A x \in i..(j - 1) : t[x] /= "\n"

\* lines 160-164: link_archived.search(text), the url escaped.  The pattern is
\*   (:?(:?URL)|(?:\[\[URL\|.*\]\])){1}\s\(\[\[.*\|Archive\]\]\)
\* and ":?" is an optional colon, which a search can always leave out.
LinkArchived(u, text) ==
    \E e \in 1..Len(text) :
        /\ \/ StartsAt(text, u, e - Len(u))
           \/ \E s \in 1..e :
                 /\ StartsAt(text, <<"[","[">> \o u \o <<"|">>, s)
                 /\ s + Len(u) + 3 <= e - 2
                 /\ StartsAt(text, <<"]","]">>, e - 2)
                 /\ OneLine(text, s + Len(u) + 3, e - 2)
        /\ text[e] \in Whitespace
        /\ StartsAt(text, <<"(","[","[">>, e + 1)
        /\ \E j \in (e + 4)..Len(text) :
              /\ StartsAt(text, <<"|","A","r","c","h","i","v","e","]","]",")">>, j)
              /\ OneLine(text, e + 4, j)

\* line 154
HasArchivableHost(u) == Truthy(hostname(u)) /\ hostname(u) \notin IGNORED_HOSTS

RECURSIVE UrlsToArchive(_, _)
UrlsToArchive(found, text) ==
    IF found = <<>> THEN <<>>
    ELSE LET u == StripDecoration(Head(found))
         IN  (IF HasArchivableHost(u) /\ ~LinkArchived(u, text) THEN <<u>> ELSE <<>>)
             \o UrlsToArchive(Tail(found), text)

get_urls_to_archive_from_text(text) == UrlsToArchive(find_urls(text), text)

-----------------------------------------------------------------------------
(* edit_text *)

\* (?<=\s)|(?<=^) before position i
BoundaryBefore(t, i) == i = 1 \/ t[i - 1] \in Whitespace

\* (?=\s|$) at position j
BoundaryAfter(t, j) == j > Len(t) \/ t[j] \in Whitespace

AtomMatches(c, ch) == IF c = "." THEN ch /= "\n" ELSE c = ch

\* The url as lines 188 and 191 put it in the pattern, not escaped: "." is any
\* character but a newline, "?" makes the character before it optional; the
\* urls of the model hold no other metacharacter.  The positions after the
\* matches of pat[p..] at t[i..], in the order the backtracking tries them.
RECURSIVE RegexEnds(_, _, _, _)
RegexEnds(pat, p, t, i) ==
    IF p > Len(pat) THEN <<i>>
    ELSE LET optional == p < Len(pat) /\ pat[p + 1] = "?"
             next     == IF optional THEN p + 2 ELSE p + 1
             taken    == IF i <= Len(t) /\ AtomMatches(pat[p], t[i])
                         THEN RegexEnds(pat, next, t, i + 1) ELSE <<>>
         IN  IF optional THEN taken \o RegexEnds(pat, next, t, i) ELSE taken

\* the same for a url taken literally (re.escape)
LiteralEnds(pat, t, i) == IF StartsAt(t, pat, i) THEN <<i + Len(pat)>> ELSE <<>>

\* the positions after the matches of the url u at t[i..], escaped or not
UrlEnds(escaped, u, t, i) ==
    IF escaped THEN LiteralEnds(u, t, i) ELSE RegexEnds(u, 1, t, i)

\* [^\[]*\]\](?=\s|$) from position j: the last position of the match with
\* the longest label, 0 when there is none
LabelEnd(t, j) ==
    LET stop == Min({x \in j..Len(t) : t[x] = "["} \cup {Len(t) + 1})
        ok   == {x \in j..stop : StartsAt(t, <<"]","]">>, x) /\ BoundaryAfter(t, x + 2)}
    IN  IF ok = {} THEN 0 ELSE Max(ok) + 1

\* the last position of the match of \[\[URL\|[^\[]*\]\](?=\s|$) that starts
\* at i, 0 when there is none
BracketedEnd(escaped, u, t, i) ==
    LET ends == UrlEnds(escaped, u, t, i + 2)
        good == {n \in 1..Len(ends) :
                    /\ ends[n] <= Len(t)
                    /\ t[ends[n]] = "|"
                    /\ LabelEnd(t, ends[n] + 1) /= 0}
    IN  IF StartsAt(t, <<"[","[">>, i) /\ BoundaryBefore(t, i) /\ good /= {}
        THEN LabelEnd(t, ends[Min(good)] + 1) ELSE 0

\* zim_integrated_link_regex.search(text).group(0), None when nothing matches
BracketedMatch(escaped, u, t) ==
    LET starts == {i \in 1..Len(t) : BracketedEnd(escaped, u, t, i) /= 0}
    IN  IF starts = {} THEN None
        ELSE SubSeq(t, Min(starts), BracketedEnd(escaped, u, t, Min(starts)))

\* normal_link_regex.search(text) matches
BareMatch(escaped, u, t) ==
    \E i \in 1..Len(t) :
        /\ BoundaryBefore(t, i)
        /\ LET ends == UrlEnds(escaped, u, t, i)
           IN  \E n \in 1..Len(ends) : BoundaryAfter(t, ends[n])

\* line 202, the text put after the link
Annotation(a) == <<" ","(","[","[">> \o a \o <<"|","A","r","c","h","i","v","e","]","]",")">>

\* lines 193-200; the url is not escaped in the two patterns
EffectivePattern(pair, t) ==
    IF BracketedMatch(FALSE, pair.original_url, t) /= None
    THEN BracketedMatch(FALSE, pair.original_url, t)
    ELSE IF BareMatch(FALSE, pair.original_url, t)
    THEN pair.original_url
    ELSE None

\* one iteration of the loop of lines 183-203
EditPair(t, pair) ==
    LET effective_pattern == EffectivePattern(pair, t)
    IN  IF effective_pattern = None THEN t
        ELSE ReplaceAll(t, effective_pattern,
                        effective_pattern \o Annotation(pair.archived_url))

-----------------------------------------------------------------------------
(* The loop of edit_text, one pair at a time *)

\* lines 183-203 for the pair at k
EditTextStep ==
    /\ pc = "edit_text"
    /\ k <= Len(archived_urls)
    /\ before' = file_contents
    /\ file_contents' = EditPair(file_contents, archived_urls[k])
    /\ k' = k + 1
    /\ UNCHANGED <<pc, caller, raised, ArchiveVars, CrawlVars>>

\* line 205, for a caller other than the crawl
EditTextReturn ==
    /\ pc = "edit_text"
    /\ caller /= "crawl"
    /\ k > Len(archived_urls)
    /\ pc' = "rewritten"
    /\ UNCHANGED <<caller, file_contents, raised, ArchiveVars, CrawlVars, EditVars>>

-----------------------------------------------------------------------------
(* crawl_notebook_and_archive_links *)

ZIM_CONTENT_TYPE == <<"C","o","n","t","e","n","t","-","T","y","p","e",":"," ","t","e","x","t","/","x","-","z","i","m","-","w","i","k","i">>

LOG_LEVEL_STRINGS == {"critical", "error", "warning", "info", "debug"}

\* logging.getLevelName(level_name.upper()), lines 51 and 242
LevelOf(name) ==
    CASE name = "critical" -> 50
      [] name = "error"    -> 40
      [] name = "warning"  -> 30
      [] name = "info"     -> 20
      [] name = "debug"    -> 10

\* logger.isEnabledFor(logging.ERROR)
ErrorEnabled == LevelOf(log_level) <= LevelOf("error")

\* line 214
FirstLine(contents) == SplitFirst(contents, "\n")

IsZimPage(doc) == doc.decodable /\ FirstLine(doc.contents) = ZIM_CONTENT_TYPE

\* lines 213-217: read_text raises UnicodeDecodeError.  logger.error is called
\* with file=sys.stderr, a keyword Logger._log does not take: when the level
\* ERROR is enabled the call raises TypeError, which nothing catches;
\* otherwise the call does nothing and the loop goes on.
CrawlUndecodable ==
    /\ pc = "crawl"
    /\ doc_i <= Len(docs)
    /\ ~docs[doc_i].decodable
    /\ IF ErrorEnabled
       THEN pc' = "raised" /\ raised' = "TypeError" /\ doc_i' = doc_i
       ELSE pc' = pc /\ raised' = raised /\ doc_i' = doc_i + 1
    /\ UNCHANGED <<caller, docs, log_level, file_contents, output, processed,
                   ArchiveVars, EditVars>>

\* lines 219-220: the first line is not the one of a Zim page: return
CrawlNotZim ==
    /\ pc = "crawl"
    /\ doc_i <= Len(docs)
    /\ docs[doc_i].decodable
    /\ FirstLine(docs[doc_i].contents) /= ZIM_CONTENT_TYPE
    /\ pc' = "returned"
    /\ UNCHANGED <<caller, file_contents, raised, ArchiveVars, CrawlVars, EditVars>>

\* lines 213-227: a Zim page; its urls are extracted and archive_links called
CrawlPage ==
    /\ pc = "crawl"
    /\ doc_i <= Len(docs)
    /\ IsZimPage(docs[doc_i])
    /\ file_contents' = docs[doc_i].contents
    /\ urls' = get_urls_to_archive_from_text(docs[doc_i].contents)
    /\ idx' = 1
    /\ archived_urls' = <<>>
    /\ pc' = "archive_links"
    /\ UNCHANGED <<caller, raised, url, avail, result, service_log, CrawlVars,
                   EditVars>>

\* lines 231-233, once edit_text has returned: the new text is printed
CrawlPrint ==
    /\ pc = "edit_text"
    /\ caller = "crawl"
    /\ k > Len(archived_urls)
    /\ output' = Append(output, file_contents)
    /\ processed' = processed \cup {doc_i}
    /\ doc_i' = doc_i + 1
    /\ pc' = "crawl"
    /\ UNCHANGED <<caller, docs, log_level, file_contents, raised, ArchiveVars,
                   EditVars>>

\* the loop of line 211 is over
CrawlReturn ==
    /\ pc = "crawl"
    /\ doc_i > Len(docs)
    /\ pc' = "returned"
    /\ UNCHANGED <<caller, file_contents, raised, ArchiveVars, CrawlVars, EditVars>>

-----------------------------------------------------------------------------
(* The run of the program on a notebook *)

MaxDocs == 2

ZimPage(body) == ZIM_CONTENT_TYPE \o <<"\n">> \o body

\* the *.txt files of the notebook: one that is not UTF-8, one that is not a
\* Zim page, and Zim pages
Documents ==
    { [decodable |-> FALSE, contents |-> <<>>],
      [decodable |-> TRUE, contents |-> <<"n","o">>],
      [decodable |-> TRUE, contents |-> ZimPage(<<"n","o">>)],
      [decodable |-> TRUE, contents |-> ZimPage(<<"[","[","h","t","t","p",":","/","/","a",".","c","o","m","|","L","]","]">>)] }

Init ==
    /\ pc = "crawl"
    /\ caller = "crawl"
    /\ docs \in Lists(Documents, MaxDocs)
    /\ doc_i = 1
    /\ log_level \in LOG_LEVEL_STRINGS
    /\ file_contents = <<>>
    /\ output = <<>>
    /\ urls = <<>>
    /\ idx = 1
    /\ archived_urls = <<>>
    /\ url = None
    /\ avail = NoAnswer
    /\ result = None
    /\ service_log = <<>>
    /\ raised = "none"
    /\ k = 1
    /\ before = <<>>
    /\ processed = {}

Next ==
    \/ CrawlUndecodable
    \/ CrawlNotZim
    \/ CrawlPage
    \/ ArchiveNext
    \/ EditTextStep
    \/ CrawlPrint
    \/ CrawlReturn

Spec == Init /\ [][Next]_vars

-----------------------------------------------------------------------------
(* A call of archive_links *)

\* the urls archive_links is called with
ArchiveInputs ==
    { <<"h","t","t","p",":","/","/","a",".","c","o","m">>, <<"a",".","c","o","m">>, <<"h","t","t","p",":","/","/","a","r","c","h","i","v","e",".","i","s","/","x">>, <<"a","r","c","h","i","v","e",".","i","s","/","x">> }

InitArchive ==
    /\ pc = "archive_links"
    /\ caller = "direct"
    /\ docs = <<>>
    /\ doc_i = 1
    /\ log_level = "debug"
    /\ file_contents = <<>>
    /\ output = <<>>
    /\ urls \in Lists(ArchiveInputs, MaxUrls)
    /\ idx = 1
    /\ archived_urls = <<>>
    /\ url = None
    /\ avail = NoAnswer
    /\ result = None
    /\ service_log = <<>>
    /\ raised = "none"
    /\ k = 1
    /\ before = <<>>
    /\ processed = {}

SpecArchive == InitArchive /\ [][ArchiveNext]_vars

-----------------------------------------------------------------------------
(* The functions of the text: extraction, rewrite, extraction again *)

MaxPieces == 2
MaxPairs == 2

TextPieces ==
    { <<"h","t","t","p",":","/","/","a",".","c","o","m">>, <<"h","t","t","p",":","/","/","a",".","c","o","m","/","x">>, <<"h","t","t","p",":","/","/","a",".","c","o","m","/","?","q">>, <<"a",".","c","o","m">>,
      <<"[","[","h","t","t","p",":","/","/","a",".","c","o","m","|","L","]","]">>, <<"[","[","h","t","t","p",":","/","/","a",".","c","o","m","/","q","|","L","]","]">>, <<"h","t","t","p",":","/","/","a","r","c","h","i","v","e",".","i","s","/","x">>,
      <<"(","[","[","h","t","t","p","s",":","/","/","w","e","b",".","a","r","c","h","i","v","e",".","o","r","g","/","w","e","b","/","2","0","1","8","/","h","t","t","p",":","/","/","a",".","c","o","m","|","A","r","c","h","i","v","e","]","]",")">>, <<"n","o">> }

Separators == {" ", "\n"}

RECURSIVE TextsOf(_)
TextsOf(n) ==
    IF n = 1 THEN TextPieces
    ELSE {t \o <<s>> \o p : t \in TextsOf(n - 1), s \in Separators, p \in TextPieces}

Texts == UNION {TextsOf(n) : n \in 1..MaxPieces}

\* the original urls of the pairs edit_text is called with directly
PairUrls == { <<"h","t","t","p",":","/","/","a",".","c","o","m">>, <<"h","t","t","p",":","/","/","a",".","c","o","m","/","?","q">> }

\* get_urls_to_archive_from_text(text)
TextExtract ==
    /\ pc = "start"
    /\ caller' = "pipeline"
    /\ urls' = get_urls_to_archive_from_text(file_contents)
    /\ pc' = "extracted"
    /\ UNCHANGED <<file_contents, raised, idx, archived_urls, url, avail, result,
                   service_log, CrawlVars, EditVars>>

\* archive_links(urls): the pairs of the urls whose archival succeeded
TextArchive ==
    /\ pc = "extracted"
    /\ \E S \in SUBSET (1..Len(urls)) : \E s \in {"recent", "located", "plain"} :
          archived_urls' =
              [n \in 1..Cardinality(S) |->
                  LET u == Select(urls, S)[n]
                  IN  ArchivedUrl(u, IF s = "recent" THEN SnapshotUrl(WithScheme(u))
                                     ELSE SavedUrl(s, WithScheme(u)))]
    /\ pc' = "edit_text"
    /\ k' = 1
    /\ before' = file_contents
    /\ UNCHANGED <<caller, file_contents, raised, urls, idx, url, avail, result,
                   service_log, CrawlVars>>

\* edit_text(text, pairs) called with pairs of any urls
TextDirect ==
    /\ pc = "start"
    /\ caller' = "direct"
    /\ archived_urls' \in
          {[n \in 1..Len(f) |-> ArchivedUrl(f[n], SavedUrl("located", f[n]))] :
              f \in Lists(PairUrls, MaxPairs) \ {<<>>}}
    /\ pc' = "edit_text"
    /\ k' = 1
    /\ before' = file_contents
    /\ UNCHANGED <<file_contents, raised, urls, idx, url, avail, result,
                   service_log, CrawlVars>>

\* the extraction again, on the text edit_text returned
TextExtractAgain ==
    /\ pc = "rewritten"
    /\ urls' = get_urls_to_archive_from_text(file_contents)
    /\ pc' = "done"
    /\ UNCHANGED <<caller, file_contents, raised, idx, archived_urls, url, avail,
                   result, service_log, CrawlVars, EditVars>>

InitText ==
    /\ pc = "start"
    /\ caller = "direct"
    /\ docs = <<>>
    /\ doc_i = 1
    /\ log_level = "debug"
    /\ file_contents \in Texts
    /\ output = <<>>
    /\ urls = <<>>
    /\ idx = 1
    /\ archived_urls = <<>>
    /\ url = None
    /\ avail = NoAnswer
    /\ result = None
    /\ service_log = <<>>
    /\ raised = "none"
    /\ k = 1
    /\ before = <<>>
    /\ processed = {}

TextNext ==
    \/ TextExtract
    \/ TextArchive
    \/ TextDirect
    \/ EditTextStep
    \/ EditTextReturn
    \/ TextExtractAgain

SpecText == InitText /\ [][TextNext]_vars

-----------------------------------------------------------------------------
(* Properties of save_link_in_wayback_machine and archive_links *)

\* save_link_in_wayback_machine raised e
HasRaised(r, e) == Len(r) = 2 /\ r[1] = "raised" /\ r[2] = e

\* the requests of the last call of save_link_in_wayback_machine, in order
LastCallRequests ==
    Select(service_log,
           {i \in 1..Len(service_log) :
               service_log[i].call = service_log[Len(service_log)].call})

RecentHours == RECENT_DAYS * HOURS_PER_DAY

\* C1: when the availability query of a url gives a closest snapshot whose age
\* (now - timestamp) is less than 14 days, save_link_in_wayback_machine returns
\* exactly the url of that snapshot, and the service receives no save request
\* during the call.
C1_RecentSnapshotIsReused ==
    (avail.kind = "closest" /\ avail.age < RecentHours) =>
        /\ result = avail.url
        /\ Len(LastCallRequests) = 1
        /\ LastCallRequests[1].req = "available"
        /\ LastCallRequests[1].url = url

\* a snapshot of 13 days and 23 hours was reused
C1_Witness ==
    /\ avail.kind = "closest"
    /\ avail.age = RecentHours - 1
    /\ result = avail.url
    /\ archived_urls /= <<>>

\* C2: when the availability query gives no closest snapshot, or one that is
\* 14 days old or more, a save request for the url follows the availability
\* query, and the url of the old snapshot is not the result.
C2_SaveRequestedWithoutRecentSnapshot ==
    (avail.kind = "empty" \/ (avail.kind = "closest" /\ avail.age >= RecentHours)) =>
        /\ Len(LastCallRequests) = 2
        /\ LastCallRequests[1].req = "available"
        /\ LastCallRequests[2].req = "save"
        /\ LastCallRequests[1].url = url
        /\ LastCallRequests[2].url = url
        /\ result /= avail.url
        /\ \/ result = None
           \/ \E e \in {"ConnectionError", "SaveLinkToWaybackMachineException"} :
                 HasRaised(result, e)
           \/ \E s \in {"located", "plain"} : result = SavedUrl(s, url)

\* a snapshot of exactly 14 days was not reused and the new snapshot returned
C2_Witness ==
    /\ avail.kind = "closest"
    /\ avail.age = RecentHours
    /\ result = SavedUrl("located", url)
    /\ Len(LastCallRequests) = 2

\* C3: when the answer to the save request of a url carries the runtime-error
\* or the live-web-error header, the call fails for that url only:
\* archive_links goes on with the next url and returns.
C3_ServiceErrorSkipsOneUrl ==
    (HasRaised(result, "SaveLinkToWaybackMachineException")
     /\ hostname(url) \notin IGNORED_HOSTS) =>
        /\ raised = "none"
        /\ pc \in {"archive_links", "returned"}

\* C4: a transport failure of the availability or of the save request, a body
\* that is not JSON or a body without the expected fields makes archive_links
\* skip the url and go on; none of them ends the batch.
C4_FailureSkipsOneUrl ==
    (/\ \E e \in {"ConnectionError", "JSONDecodeError", "KeyError"} : HasRaised(result, e)
     /\ hostname(url) \notin IGNORED_HOSTS) =>
        /\ raised = "none"
        /\ pc \in {"archive_links", "returned"}

\* C9: the archiving service receives no request, availability or save, for a
\* url whose host is an ignored host, whatever the list given to archive_links,
\* urls without a scheme included.
C9_NoRequestForIgnoredHost ==
    \A i \in 1..Len(service_log) : hostname(service_log[i].url) \notin IGNORED_HOSTS

-----------------------------------------------------------------------------
(* Properties of the functions of the text *)

\* u is in t as a bare link: between whitespace or the ends of the text
OccursBare(u, t) == BareMatch(TRUE, u, t)

\* u is in t as a bracketed link [[u|label]], between whitespace or the ends
OccursBracketed(u, t) == BracketedMatch(TRUE, u, t) /= None

\* the urls the properties are about
SubjectUrls ==
    { <<"h","t","t","p",":","/","/","a",".","c","o","m">>, <<"h","t","t","p",":","/","/","a",".","c","o","m","/","x">>, <<"h","t","t","p",":","/","/","a",".","c","o","m","/","?","q">>, <<"a",".","c","o","m">>,
      <<"h","t","t","p",":","/","/","a","r","c","h","i","v","e",".","i","s","/","x">> }

\* C5: the extraction, run again on the text rewritten with the pairs of the
\* urls extracted from it and archived, returns the original url of no pair.
C5_SecondRunFindsNothing ==
    (pc = "done" /\ caller = "pipeline") =>
        \A n \in 1..Len(archived_urls) : Count(urls, archived_urls[n].original_url) = 0

\* C6: a url that is bare in the text, with or without a scheme, that has no
\* archive annotation next to it and whose host is not an ignored host, is
\* exactly once in the result of get_urls_to_archive_from_text.
C6_BareUrlExtractedOnce ==
    pc = "extracted" =>
        \A u \in SubjectUrls :
            (/\ OccursBare(u, file_contents)
             /\ ~LinkArchived(u, file_contents)
             /\ hostname(WithScheme(u)) \notin IGNORED_HOSTS)
            => Count(urls, u) = 1

\* the span the annotation goes after: the bracketed expression when there is
\* one, otherwise the bare url; None when the url is in neither form
SpanOf(u, t) ==
    IF OccursBracketed(u, t) THEN BracketedMatch(TRUE, u, t)
    ELSE IF OccursBare(u, t) THEN u
    ELSE None

\* t with ann put after each occurrence of span that is between whitespace or
\* the ends of the text, and nowhere else
RECURSIVE AnnotateBounded(_, _, _)
AnnotateBounded(t, span, ann) ==
    LET occ == {i \in 1..Len(t) :
                   /\ StartsAt(t, span, i)
                   /\ BoundaryBefore(t, i)
                   /\ BoundaryAfter(t, i + Len(span))}
    IN  IF occ = {} THEN t
        ELSE SubSeq(t, 1, Min(occ) + Len(span) - 1) \o ann
             \o AnnotateBounded(SubSeq(t, Min(occ) + Len(span), Len(t)), span, ann)

\* the pair the last iteration of edit_text was about
LastPair == archived_urls[k - 1]

\* C7: for a pair (u, a) whose u is in the text as a bracketed or a bare link,
\* edit_text puts " ([[a|Archive]])" right after every occurrence of the
\* matched span that is between whitespace or the ends of the text, and
\* nowhere else: u inside a longer url is left as it is.  Stated for the
\* iterations in which the span edit_text matched is the span the url has in
\* the text.
C7_AnnotationAfterBoundedSpansOnly ==
    (/\ k > 1
     /\ SpanOf(LastPair.original_url, before) /= None
     /\ EffectivePattern(LastPair, before) = SpanOf(LastPair.original_url, before)) =>
        file_contents = AnnotateBounded(before, SpanOf(LastPair.original_url, before),
                                        Annotation(LastPair.archived_url))

\* C8: for a pair (u, a) whose u is in the text neither as a bracketed link
\* [[u|label]] nor as a bare link, the iteration of edit_text leaves the text
\* as it was.
C8_NoMatchNoChange ==
    (/\ k > 1
     /\ ~Contains(before, <<"[","[">> \o LastPair.original_url \o <<"|">>)
     /\ ~OccursBare(LastPair.original_url, before))
    => file_contents = before

-----------------------------------------------------------------------------
(* Property of crawl_notebook_and_archive_links *)

\* C10: a file that cannot be decoded, or whose first line is not
\* "Content-Type: text/x-zim-wiki", is skipped alone: the run does not abort
\* and every Zim page, those after it included, goes through the extraction,
\* the archival and the rewrite.
C10_OtherDocumentsStillProcessed ==
    (pc = "returned" \/ raised = "TypeError") =>
        /\ raised = "none"
        /\ \A i \in 1..Len(docs) : IsZimPage(docs[i]) => i \in processed

=============================================================================
